---- MODULE Spec2Model ----
(***************************************************************************)
(* Model of the graph dashboard of Django-Connection-Sample:               *)
(*   utils/graphml_csv_loader.py  GraphMLCSVConfigLoader, GraphStyleManager *)
(*   dash_advanced_reset.py       AdvancedGraphMLCSVDashApp and callbacks   *)
(*   dash_graphml_csv.py, dash_refactored.py   the two simpler apps         *)
(*   utils/graph_loader.py      GraphConfigLoader (dash_refactored)        *)
(*   sampleapp/consumers.py, tasks.py, apps.py   the random-message task   *)
(*                                                                         *)
(* Python values: a dict is a function with a string domain, a list is a   *)
(* sequence (Python index i is TLA+ index i+1), None is the string "None", *)
(* an unset component property is the empty sequence.                      *)
(***************************************************************************)
EXTENDS Integers, Sequences, FiniteSets, TLC

VARIABLES
    graph,                \* GraphMLCSVConfigLoader.graph
    config,               \* GraphMLCSVConfigLoader.config
    base_stylesheet,      \* GraphStyleManager.base_stylesheet
    original_table_data,  \* dcc.Store 'original-table-data'
    tapNodeData,          \* cytoscape.tapNodeData
    selected_rows,        \* datatable.selected_rows
    table_data,           \* datatable.data
    last_selected,        \* dcc.Store 'last-selected'
    stylesheet,           \* cytoscape.stylesheet
    elements,             \* cytoscape.elements
    pending,              \* callbacks the Dash runtime has triggered and not yet run
    hist,                 \* the last call: its name, its arguments, what it did
    is_running,           \* random_message_generator.is_running
    task_thread,          \* where each thread running start_random_messages is
    consumer,             \* the WebSocket connections
    app_ready             \* SampleappConfig.ready's thread has called start_random_message_task

dashVars == <<graph, config, base_stylesheet, original_table_data, tapNodeData,
              selected_rows, table_data, last_selected, stylesheet, elements,
              pending, hist>>

\* the Django sample application, a process of its own
taskVars == <<is_running, task_thread, consumer, app_ready>>

vars == <<dashVars, taskVars>>

loaderVars == <<graph, config, base_stylesheet, original_table_data, taskVars>>

\* what a callback that uses the style manager cannot write
dataVars == <<graph, config, original_table_data, taskVars>>

(* the sample application before it is started *)

MaxThreads == 3
MaxConnections == 2

Threads == 1..MaxThreads
Connections == 1..MaxConnections

\* RandomMessageGenerator.__init__, no connection, ready() not yet run
sampleapp_not_started ==
    /\ is_running = FALSE
    /\ task_thread = [t \in Threads |-> "none"]
    /\ consumer = [c \in Connections |-> "closed"]
    /\ app_ready = FALSE

-----------------------------------------------------------------------------
(* Python helpers *)

None == "None"

\* dict.get(key, default)
Get(d, key, default) == IF key \in DOMAIN d THEN d[key] ELSE default

\* str() of a value; every id and cell of the modelled inputs is already a str
Str(v) == v

\* truth value of a str
Truthy(v) == v # ""

\* [x for x in xs if x in d]
KeysPresent(xs, d) == SelectSeq(xs, LAMBDA x : x \in DOMAIN d)

Range(s) == {s[i] : i \in 1..Len(s)}

\* str.lower() on the node type strings of the modelled graphs
Lower(s) ==
    CASE s = "Interface" -> "interface"
      [] s = "Storage"   -> "storage"
      [] s = "Processer" -> "processer"
      [] OTHER           -> s

\* sorted() on node type strings: code point order of the strings the graphs use
TypeOrder ==
    <<"Interface", "Processer", "Storage", "category!", "class!", "default", "kind!",
      "processer", "type!">>

-----------------------------------------------------------------------------
(* The inputs of a session: graphs, tables, configurations *)

\* A(type=Interface), B(type=Storage), C without attributes; a digraph in which
\* (A,B) and (B,A) are both edges.
Graph1 ==
    [nodes |-> <<"A", "B", "C">>,
     ndata |-> [n \in {"A", "B", "C"} |->
                  CASE n = "A" -> ("type" :> "Interface") @@ ("label" :> "Alpha")
                    [] n = "B" -> ("type" :> "Storage") @@ ("name" :> "Beta")
                    [] OTHER   -> <<>>],
     edges |-> << <<"A", "B">>, <<"B", "A">>, <<"B", "C">> >>,
     edata |-> [e \in {<<"A", "B">>, <<"B", "A">>, <<"B", "C">>} |->
                  CASE e = <<"A", "B">> -> ("label" :> "link")
                    [] e = <<"B", "C">> -> ("relation" :> "feeds") @@ ("weight" :> "3")
                    [] OTHER            -> <<>>]]

Graphs == {Graph1}

Row(s, t) == ("source" :> s) @@ ("target" :> t)
RowFromTo(s, t) == ("from" :> s) @@ ("to" :> t)

\* a table with the columns source,target and one with the columns from,to
Table1 == <<Row("A", "B"), Row("B", "A"), Row("C", "C")>>
Table2 == <<RowFromTo("A", "B"), RowFromTo("B", "A")>>
Tables == {Table1, Table2}

InterfaceStyle == ("background_color" :> "#4CAF50") @@ ("shape" :> "rectangle")

\* a configured type that no node of Graph1 has
ProcesserStyle == ("background_color" :> "#2196F3") @@ ("shape" :> "diamond")

Config(filter_columns) ==
    ("table" :> ("filter_columns" :> filter_columns))
    @@ ("node_type_styles" :> (("Interface" :> InterfaceStyle)
                               @@ ("Processer" :> ProcesserStyle)))
    @@ ("layout" :> ("layout_algorithm" :> "cose"))

Configs == {Config(<<>>), Config(<<"source", "target">>)}

NodeIds == {"A", "B", "C"}

-----------------------------------------------------------------------------
(* GraphMLCSVConfigLoader: elements *)

RECURSIVE FirstTruthy(_, _, _)
FirstTruthy(data, candidates, fallback) ==
    IF candidates = <<>> THEN fallback
    ELSE IF Head(candidates) \in DOMAIN data /\ Truthy(data[Head(candidates)])
         THEN data[Head(candidates)]
         ELSE FirstTruthy(data, Tail(candidates), fallback)

\* defect: the first candidate that is present wins, empty or not
_get_node_label_first_present(node_data, node_id) ==
    LET present == KeysPresent(<<"label", "name", "title", "id">>, node_data)
    IN IF present = <<>> THEN node_id ELSE node_data[present[1]]

_get_node_label(node_data, node_id) ==
    FirstTruthy(node_data, <<"label", "name", "title", "id">>, node_id)

_get_node_type(node_data) ==
    FirstTruthy(node_data, <<"type", "category", "kind", "class">>, "default")

_get_edge_label(edge_data, source, target) ==
    FirstTruthy(edge_data, <<"label", "name", "title", "relation">>,
                source \o "->" \o target)

\* the attributes of `attrs` that `data` has, copied
Additional(data, attrs) ==
    [a \in {x \in Range(attrs) : x \in DOMAIN data} |-> data[a]]

_add_additional_node_attributes(node_data) ==
    Additional(node_data, <<"weight", "size", "color", "description">>)

_add_additional_edge_attributes(edge_data) ==
    Additional(edge_data, <<"weight", "bandwidth", "protocol", "description">>)

_create_node_elements ==
    [i \in 1..Len(graph.nodes) |->
        LET node_id   == graph.nodes[i]
            node_data == graph.ndata[node_id]
            node_type == _get_node_type(node_data)
        IN [data |-> ("id" :> Str(node_id))
                     @@ ("label" :> Str(_get_node_label(node_data, node_id)))
                     @@ ("Type" :> Str(node_type))
                     @@ _add_additional_node_attributes(node_data),
            classes |-> "type-" \o Lower(node_type)]]

EdgeElement(source, target, is_directed) ==
    LET edge_data == graph.edata[<<source, target>>]
    IN [data |-> ("source" :> Str(source))
                 @@ ("target" :> Str(target))
                 @@ ("label" :> Str(_get_edge_label(edge_data, source, target)))
                 @@ ("directed" :> is_directed)
                 @@ _add_additional_edge_attributes(edge_data),
        classes |-> IF is_directed THEN "directed" ELSE "undirected"]

_create_edge_elements ==
    [i \in 1..Len(graph.edges) |->
        EdgeElement(graph.edges[i][1], graph.edges[i][2], FALSE)]

get_cytoscape_elements == _create_node_elements \o _create_edge_elements

\* defect: the pair is compared without regard to its order
_create_directed_edge_elements_unordered(target_source, target_target) ==
    [i \in 1..Len(graph.edges) |->
        LET edge_source == graph.edges[i][1]
            edge_target == graph.edges[i][2]
            is_directed == \/ Str(edge_source) = target_source
                              /\ Str(edge_target) = target_target
                           \/ Str(edge_source) = target_target
                              /\ Str(edge_target) = target_source
        IN EdgeElement(edge_source, edge_target, is_directed)]

\* defect: an edge the displayed elements mark directed keeps its mark
_create_directed_edge_elements_sticky(target_source, target_target) ==
    [i \in 1..Len(graph.edges) |->
        LET edge_source == graph.edges[i][1]
            edge_target == graph.edges[i][2]
            shown       == elements[Len(graph.nodes) + i]
            is_directed == \/ Str(edge_source) = target_source
                              /\ Str(edge_target) = target_target
                           \/ shown.data["directed"]
        IN EdgeElement(edge_source, edge_target, is_directed)]

_create_directed_edge_elements(target_source, target_target) ==
    [i \in 1..Len(graph.edges) |->
        LET edge_source == graph.edges[i][1]
            edge_target == graph.edges[i][2]
            is_directed == Str(edge_source) = target_source
                           /\ Str(edge_target) = target_target
        IN EdgeElement(edge_source, edge_target, is_directed)]

get_directed_cytoscape_elements(source_node, target_node) ==
    _create_node_elements \o _create_directed_edge_elements(source_node, target_node)

\* <<>> stands for the None the function returns
_extract_connection_info(selected_row) ==
    LET configured == Get(Get(config, "table", <<>>), "filter_columns", <<>>)
        filter_columns ==
            IF configured = <<>>
            THEN KeysPresent(<<"source", "target", "from", "to", "node1", "node2">>,
                             selected_row)
            ELSE configured
    IN IF Len(filter_columns) >= 2
       THEN LET source_node == Str(Get(selected_row, filter_columns[1], ""))
                target_node == Str(Get(selected_row, filter_columns[2], ""))
            IN IF Truthy(source_node) /\ Truthy(target_node)
               THEN <<source_node, target_node>>
               ELSE <<>>
       ELSE <<>>

get_directed_cytoscape_elements_by_table_row(selected_row) ==
    IF selected_row = <<>> THEN get_cytoscape_elements
    ELSE LET connection_info == _extract_connection_info(selected_row)
         IN IF connection_info = <<>> THEN get_cytoscape_elements
            ELSE get_directed_cytoscape_elements(connection_info[1], connection_info[2])

-----------------------------------------------------------------------------
(* GraphMLCSVConfigLoader: stylesheet *)

Rule(selector, style) == [selector |-> selector, style |-> style]

NodeStyle(style_config, default_color) ==
    ("label" :> "data(label)")
    @@ ("background-color" :> Get(style_config, "background_color", default_color))
    @@ ("shape" :> Get(style_config, "shape", "ellipse"))
    @@ ("width" :> Get(style_config, "width", 60))
    @@ ("height" :> Get(style_config, "height", 60))
    @@ ("text-valign" :> "center")
    @@ ("text-halign" :> "center")
    @@ ("font-size" :> "10px")
    @@ ("color" :> "#333")

_add_default_node_style ==
    LET default_style == Get(Get(config, "layout", <<>>), "default_node_style", <<>>)
    IN <<Rule("node", NodeStyle(default_style, "#666"))>>

get_node_types ==
    LET types == {_get_node_type(graph.ndata[graph.nodes[i]]) : i \in 1..Len(graph.nodes)}
    IN SelectSeq(TypeOrder, LAMBDA t : t \in types)

_create_node_type_style(node_type, style_config) ==
    Rule("node[Type = \"" \o node_type \o "\"]", NodeStyle(style_config, "#e0e0e0"))

_add_node_type_styles ==
    LET type_styles == Get(config, "node_type_styles", <<>>)
        configured  == SelectSeq(get_node_types, LAMBDA t : t \in DOMAIN type_styles)
    IN [i \in 1..Len(configured) |->
          _create_node_type_style(configured[i], type_styles[configured[i]])]

_add_edge_styles ==
    <<Rule("edge", ("curve-style" :> "bezier")
                   @@ ("width" :> 2)
                   @@ ("line-color" :> "#999")
                   @@ ("target-arrow-color" :> "#999")
                   @@ ("label" :> "data(label)")
                   @@ ("font-size" :> "8px")
                   @@ ("text-rotation" :> "autorotate"))>>

\* defect: the edge rule is added before the node type rules
get_cytoscape_stylesheet_edges_first ==
    _add_default_node_style \o _add_edge_styles \o _add_node_type_styles

get_cytoscape_stylesheet ==
    _add_default_node_style \o _add_node_type_styles \o _add_edge_styles

-----------------------------------------------------------------------------
(* GraphStyleManager *)

get_base_stylesheet == base_stylesheet

\* defect: a method appends to self.base_stylesheet and returns that list
base_stylesheet_after_aliased(returned) == returned

\* self.base_stylesheet after a callback got `returned` from the manager:
\* copy() and `+` build a new list, the manager's own list is not written
base_stylesheet_after(returned) == base_stylesheet

NodeIdSelector(node_id) == "node[id = \"" \o node_id \o "\"]"

EdgeSelector(source, target) ==
    "edge[source = \"" \o source \o "\"][target = \"" \o target \o "\"]"

Border(color, width) == ("border-width" :> width) @@ ("border-color" :> color)

\* callers pass no colour and no width: color = 'red', width = 4
add_node_highlight(node_id) ==
    base_stylesheet \o <<Rule(NodeIdSelector(node_id), Border("red", 4))>>

\* defect: the edge rule selects the reversed edge
add_edge_highlight_reversed(source, target) ==
    base_stylesheet \o
    <<Rule(NodeIdSelector(source), Border("orange", 4)),
      Rule(NodeIdSelector(target), Border("orange", 4)),
      Rule(EdgeSelector(target, source),
           ("line-color" :> "orange") @@ ("target-arrow-color" :> "orange"))>>

\* callers pass no colour: color = 'orange'
add_edge_highlight(source, target) ==
    base_stylesheet \o
    <<Rule(NodeIdSelector(source), Border("orange", 4)),
      Rule(NodeIdSelector(target), Border("orange", 4)),
      Rule(EdgeSelector(source, target),
           ("line-color" :> "orange") @@ ("target-arrow-color" :> "orange"))>>

directed_styles ==
    <<Rule("edge.undirected", ("target-arrow-shape" :> "none")
                              @@ ("source-arrow-shape" :> "none")
                              @@ ("line-style" :> "solid")
                              @@ ("line-color" :> "#666")
                              @@ ("width" :> 2)),
      Rule("edge.directed", ("target-arrow-shape" :> "triangle")
                            @@ ("target-arrow-color" :> "#e74c3c")
                            @@ ("line-color" :> "#e74c3c")
                            @@ ("width" :> 3)
                            @@ ("line-style" :> "solid"))>>

get_directed_stylesheet == base_stylesheet \o directed_styles

-----------------------------------------------------------------------------
(* AdvancedGraphMLCSVDashApp._merge_stylesheets *)

\* {style.get('selector', '') for style in merged if 'selector' in style}
Selectors(styles) ==
    {Get(styles[i], "selector", "") :
        i \in {k \in 1..Len(styles) : "selector" \in DOMAIN styles[k]}}

RECURSIVE MergeLoop(_, _, _)
MergeLoop(merged, existing_selectors, additional_styles) ==
    IF additional_styles = <<>> THEN merged
    ELSE LET style    == Head(additional_styles)
             selector == Get(style, "selector", "")
         IN IF Truthy(selector) /\ selector \notin existing_selectors
            THEN MergeLoop(Append(merged, style), existing_selectors \cup {selector},
                           Tail(additional_styles))
            ELSE MergeLoop(merged, existing_selectors, Tail(additional_styles))

\* defect: the layers are concatenated, no rule is dropped
_merge_stylesheets_concat(base_styles, additional_styles) ==
    base_styles \o additional_styles

_merge_stylesheets(base_styles, additional_styles) ==
    IF base_styles = <<>> THEN additional_styles
    ELSE MergeLoop(base_styles, Selectors(base_styles), additional_styles)

-----------------------------------------------------------------------------
(* GraphMLCSVConfigLoader.filter_table_by_node *)

\* defect: a filter that matches no row returns no row
filter_table_by_node_empty(node_id, original_data) ==
    IF original_data = <<>> THEN <<>>
    ELSE LET configured == Get(Get(config, "table", <<>>), "filter_columns", <<>>)
             filter_columns ==
                 IF configured = <<>>
                 THEN KeysPresent(<<"source", "target", "from", "to", "sender", "receiver">>,
                                  original_data[1])
                 ELSE configured
         IN IF filter_columns = <<>> THEN original_data
            ELSE SelectSeq(original_data,
                           LAMBDA row : \E i \in 1..Len(filter_columns) :
                               /\ filter_columns[i] \in DOMAIN row
                               /\ Str(row[filter_columns[i]]) = Str(node_id))

RECURSIVE Repeat(_, _)
Repeat(x, n) == IF n = 0 THEN <<>> ELSE <<x>> \o Repeat(x, n - 1)

RECURSIVE FlattenRows(_)
FlattenRows(seqs) == IF seqs = <<>> THEN <<>> ELSE Head(seqs) \o FlattenRows(Tail(seqs))

\* defect: no break, a row is appended once for each column that matches
filter_table_by_node_per_column(node_id, original_data) ==
    IF original_data = <<>> THEN <<>>
    ELSE LET configured == Get(Get(config, "table", <<>>), "filter_columns", <<>>)
             filter_columns ==
                 IF configured = <<>>
                 THEN KeysPresent(<<"source", "target", "from", "to", "sender", "receiver">>,
                                  original_data[1])
                 ELSE configured
             matches(row) == Cardinality({i \in 1..Len(filter_columns) :
                                 /\ filter_columns[i] \in DOMAIN row
                                 /\ Str(row[filter_columns[i]]) = Str(node_id)})
             filtered_data ==
                 FlattenRows([k \in 1..Len(original_data) |->
                                 Repeat(original_data[k], matches(original_data[k]))])
         IN IF filter_columns = <<>> THEN original_data
            ELSE IF filtered_data # <<>> THEN filtered_data ELSE original_data

filter_table_by_node(node_id, original_data) ==
    IF original_data = <<>> THEN <<>>
    ELSE LET configured == Get(Get(config, "table", <<>>), "filter_columns", <<>>)
             filter_columns ==
                 IF configured = <<>>
                 THEN KeysPresent(<<"source", "target", "from", "to", "sender", "receiver">>,
                                  original_data[1])
                 ELSE configured
             filtered_data ==
                 SelectSeq(original_data,
                           LAMBDA row : \E i \in 1..Len(filter_columns) :
                               /\ filter_columns[i] \in DOMAIN row
                               /\ Str(row[filter_columns[i]]) = Str(node_id))
         IN IF filter_columns = <<>> THEN original_data
            ELSE IF filtered_data # <<>> THEN filtered_data ELSE original_data

-----------------------------------------------------------------------------
(* AdvancedGraphMLCSVDashApp: what each callback returns.  A callback that   *)
(* raises returns Raised: the Dash runtime then updates none of its outputs. *)

NoSelection == [type |-> None, value |-> None]

Raised == [raised |-> TRUE]

StyleResult(sheet, selection) ==
    [raised |-> FALSE, stylesheet |-> sheet, selected |-> selection]

\* defect: a repeated tap does not deselect
_handle_node_selection_no_toggle(clicked_node, last) ==
    IF ~Truthy(clicked_node)
    THEN StyleResult(get_directed_stylesheet, NoSelection)
    ELSE StyleResult(add_node_highlight(clicked_node),
                     [type |-> "node", value |-> clicked_node])

\* defect: a new node selection writes the type and leaves the value empty
_handle_node_selection_partial(clicked_node, last) ==
    IF ~Truthy(clicked_node)
    THEN StyleResult(get_directed_stylesheet, NoSelection)
    ELSE IF Get(last, "type", None) = "node" /\ Get(last, "value", None) = clicked_node
         THEN StyleResult(get_directed_stylesheet, NoSelection)
         ELSE StyleResult(add_node_highlight(clicked_node),
                          [type |-> "node", value |-> None])

_handle_node_selection(clicked_node, last) ==
    IF ~Truthy(clicked_node)
    THEN StyleResult(get_directed_stylesheet, NoSelection)
    ELSE IF Get(last, "type", None) = "node" /\ Get(last, "value", None) = clicked_node
         THEN StyleResult(get_directed_stylesheet, NoSelection)
         ELSE StyleResult(add_node_highlight(clicked_node),
                          [type |-> "node", value |-> clicked_node])

\* defect: any earlier row selection, not only that of the same row, deselects
_handle_table_style_selection_any_row(rows, data, last) ==
    IF rows[1] + 1 > Len(data) THEN Raised
    ELSE
    LET selected_row == data[rows[1] + 1]
        configured == Get(Get(config, "table", <<>>), "filter_columns", <<>>)
        filter_columns ==
            IF configured = <<>>
            THEN KeysPresent(<<"source", "target", "from", "to">>, selected_row)
            ELSE configured
    IN IF Len(filter_columns) >= 2
       THEN IF \/ filter_columns[1] \notin DOMAIN selected_row
               \/ filter_columns[2] \notin DOMAIN selected_row
            THEN Raised
            ELSE IF last.type = "table"
                 THEN StyleResult(get_base_stylesheet, NoSelection)
                 ELSE StyleResult(add_edge_highlight(Str(selected_row[filter_columns[1]]),
                                                     Str(selected_row[filter_columns[2]])),
                                  [type |-> "table", value |-> rows[1]])
       ELSE StyleResult(get_base_stylesheet, NoSelection)

_handle_table_style_selection(rows, data, last) ==
    IF rows[1] + 1 > Len(data) THEN Raised                      \* IndexError
    ELSE
    LET selected_row == data[rows[1] + 1]
        configured == Get(Get(config, "table", <<>>), "filter_columns", <<>>)
        filter_columns ==
            IF configured = <<>>
            THEN KeysPresent(<<"source", "target", "from", "to">>, selected_row)
            ELSE configured
    IN IF Len(filter_columns) >= 2
       THEN IF \/ filter_columns[1] \notin DOMAIN selected_row
               \/ filter_columns[2] \notin DOMAIN selected_row
            THEN Raised                                         \* KeyError
            ELSE LET source_node == Str(selected_row[filter_columns[1]])
                     target_node == Str(selected_row[filter_columns[2]])
                     current_selection == [type |-> "table", value |-> rows[1]]
                 IN IF last = current_selection
                    THEN StyleResult(get_base_stylesheet, NoSelection)
                    ELSE StyleResult(add_edge_highlight(source_node, target_node),
                                     current_selection)
       ELSE StyleResult(get_base_stylesheet, NoSelection)

\* defect: the row selection is looked at before the node tap
update_styles_rows_first(tap, rows, last, data) ==
    IF rows # <<>> /\ data # <<>>
    THEN _handle_table_style_selection(rows, data, last)
    ELSE IF tap # <<>>
         THEN _handle_node_selection(tap.id, last)
         ELSE StyleResult(get_base_stylesheet, NoSelection)

update_styles(tap, rows, last, data) ==
    IF tap # <<>>
    THEN _handle_node_selection(tap.id, last)
    ELSE IF rows # <<>> /\ data # <<>>
         THEN _handle_table_style_selection(rows, data, last)
         ELSE StyleResult(get_base_stylesheet, NoSelection)

filter_table(tap, original_data) ==
    IF tap = <<>> \/ original_data = <<>> THEN original_data
    ELSE filter_table_by_node(tap.id, original_data)

EdgeResult(elems, sheet) == [raised |-> FALSE, elements |-> elems, stylesheet |-> sheet]

update_edge_direction_and_highlight(rows, data) ==
    IF rows = <<>> \/ data = <<>>
    THEN EdgeResult(get_cytoscape_elements, get_directed_stylesheet)
    ELSE IF rows[1] + 1 > Len(data) THEN Raised                 \* IndexError
    ELSE
    LET selected_row == data[rows[1] + 1]
        source_node == Get(selected_row, "source", "")
        target_node == Get(selected_row, "target", "")
    IN IF Truthy(source_node) /\ Truthy(target_node)
       THEN EdgeResult(get_directed_cytoscape_elements_by_table_row(selected_row),
                       _merge_stylesheets(get_directed_stylesheet,
                                          add_edge_highlight(source_node, target_node)))
       ELSE EdgeResult(get_cytoscape_elements, get_directed_stylesheet)

-----------------------------------------------------------------------------
(* The Dash runtime of AdvancedGraphMLCSVDashApp.  A change of a property   *)
(* that a callback declares as Input, by the user or by another callback's  *)
(* Output, triggers that callback; a triggered callback reads its Input and *)
(* State properties and writes its Outputs in one step.  The callbacks one  *)
(* change triggers run in either order.  clear_reset_status and             *)
(* handle_layout_change write only 'reset-status' and the layout and are    *)
(* left out.                                                                *)

MaxClicks == 2   \* n_clicks values a button callback is called with
MaxRun == 2      \* length of the recorded prefix of the user's events

OnTapNodeData == {"update_styles", "filter_table"}
OnSelectedRows == {"update_styles", "update_edge_direction_and_highlight"}

Buttons == {"handle_full_reset", "handle_selection_clear", "handle_table_reset",
            "handle_style_reset"}

\* the record of a callback's run: the properties as it found them
Ran(op, raised, clicks) ==
    [op |-> op, raised |-> raised, clicks |-> clicks, pre |-> last_selected,
     data |-> table_data, rows |-> selected_rows, elements |-> elements,
     ev |-> hist.ev, run |-> hist.run, start_sheet |-> hist.start_sheet]

\* the record of a user event: the first MaxRun events of a session are kept
Event(e) ==
    LET kept == Len(hist.run) < MaxRun /\ (hist.run = <<>> \/ hist.run[1].ev # "more")
    IN [op |-> "event", raised |-> FALSE, clicks |-> 0, pre |-> last_selected,
        data |-> table_data, rows |-> selected_rows, elements |-> elements,
        ev |-> e,
        run |-> IF kept THEN Append(hist.run, e) ELSE <<[ev |-> "more"]>>,
        start_sheet |-> IF ~kept THEN <<>>
                        ELSE IF hist.run = <<>> THEN stylesheet ELSE hist.start_sheet]

NoHistory(run) ==
    [op |-> "layout", raised |-> FALSE, clicks |-> 0, pre |-> NoSelection,
     data |-> <<>>, rows |-> <<>>, elements |-> <<>>,
     ev |-> [ev |-> "load"], run |-> run, start_sheet |-> <<>>]

\* AdvancedGraphMLCSVDashApp.setup_layout: the properties the page starts with
setup_layout ==
    /\ base_stylesheet = get_cytoscape_stylesheet
    /\ tapNodeData = <<>>
    /\ selected_rows = <<>>
    /\ table_data = original_table_data
    /\ last_selected = NoSelection
    /\ stylesheet = get_directed_stylesheet
    /\ elements = get_cytoscape_elements

Init ==
    /\ graph \in Graphs
    /\ config \in Configs
    /\ original_table_data \in Tables
    /\ setup_layout
    /\ sampleapp_not_started
    /\ pending = {"update_styles", "filter_table"}     \* no prevent_initial_call
    /\ hist = NoHistory(<<>>)

(* the user *)

TapNode(v) ==
    /\ pending = {}
    /\ tapNodeData' = [id |-> v]
    /\ pending' = OnTapNodeData
    /\ hist' = Event([ev |-> "tap", node |-> v])
    /\ UNCHANGED <<loaderVars, selected_rows, table_data, last_selected, stylesheet,
                   elements>>

\* row_selectable='single': a click on a displayed row other than the selected one
SelectRow(i) ==
    /\ pending = {}
    /\ i + 1 <= Len(table_data)
    /\ selected_rows # <<i>>
    /\ selected_rows' = <<i>>
    /\ pending' = OnSelectedRows
    /\ hist' = Event([ev |-> "row", index |-> i])
    /\ UNCHANGED <<loaderVars, tapNodeData, table_data, last_selected, stylesheet,
                   elements>>

Press(button) ==
    /\ pending = {}
    /\ pending' = {button}
    /\ hist' = Event([ev |-> "press", button |-> button])
    /\ UNCHANGED <<loaderVars, tapNodeData, selected_rows, table_data, last_selected,
                   stylesheet, elements>>

(* the callbacks *)

UpdateStyles ==
    /\ "update_styles" \in pending
    /\ LET r == update_styles(tapNodeData, selected_rows, last_selected, table_data)
       IN /\ IF r.raised
             THEN UNCHANGED <<stylesheet, last_selected>>
             ELSE stylesheet' = r.stylesheet /\ last_selected' = r.selected
          /\ hist' = Ran("update_styles", r.raised, 0)
    /\ pending' = pending \ {"update_styles"}
    /\ base_stylesheet' = base_stylesheet_after(stylesheet')
    /\ UNCHANGED <<dataVars, tapNodeData, selected_rows, table_data, elements>>

FilterTable ==
    /\ "filter_table" \in pending
    /\ table_data' = filter_table(tapNodeData, table_data)
    /\ hist' = Ran("filter_table", FALSE, 0)
    /\ pending' = pending \ {"filter_table"}
    /\ UNCHANGED <<loaderVars, tapNodeData, selected_rows, last_selected, stylesheet,
                   elements>>

UpdateEdgeDirectionAndHighlight ==
    /\ "update_edge_direction_and_highlight" \in pending
    /\ LET r == update_edge_direction_and_highlight(selected_rows, table_data)
       IN /\ IF r.raised
             THEN UNCHANGED <<elements, stylesheet>>
             ELSE elements' = r.elements /\ stylesheet' = r.stylesheet
          /\ hist' = Ran("update_edge_direction_and_highlight", r.raised, 0)
    /\ pending' = pending \ {"update_edge_direction_and_highlight"}
    /\ base_stylesheet' = base_stylesheet_after(stylesheet')
    /\ UNCHANGED <<dataVars, tapNodeData, selected_rows, table_data, last_selected>>

\* _create_full_reset_state included; 'datatable.selected_rows' is an Output
HandleFullReset(reset_clicks) ==
    /\ "handle_full_reset" \in pending
    /\ IF reset_clicks = 0
       THEN /\ pending' = pending \ {"handle_full_reset"}              \* no_update
            /\ UNCHANGED <<stylesheet, elements, last_selected, table_data, selected_rows>>
       ELSE /\ stylesheet' = get_directed_stylesheet
            /\ elements' = get_cytoscape_elements
            /\ last_selected' = NoSelection
            /\ table_data' = original_table_data
            /\ selected_rows' = <<>>
            /\ pending' = (pending \ {"handle_full_reset"}) \cup OnSelectedRows
    /\ hist' = Ran("handle_full_reset", FALSE, reset_clicks)
    /\ base_stylesheet' = base_stylesheet_after(stylesheet')
    /\ UNCHANGED <<dataVars, tapNodeData>>

\* defect: the stylesheet and the rows are cleared, 'last-selected' is not
HandleSelectionClear_keeps_selection(clear_clicks) ==
    /\ "handle_selection_clear" \in pending
    /\ IF clear_clicks = 0
       THEN /\ pending' = pending \ {"handle_selection_clear"}
            /\ UNCHANGED <<stylesheet, selected_rows>>
       ELSE /\ stylesheet' = get_directed_stylesheet
            /\ selected_rows' = <<>>
            /\ pending' = (pending \ {"handle_selection_clear"}) \cup OnSelectedRows
    /\ hist' = Ran("handle_selection_clear", FALSE, clear_clicks)
    /\ base_stylesheet' = base_stylesheet_after(stylesheet')
    /\ UNCHANGED <<dataVars, tapNodeData, table_data, elements, last_selected>>

HandleSelectionClear(clear_clicks) ==
    /\ "handle_selection_clear" \in pending
    /\ IF clear_clicks = 0
       THEN /\ pending' = pending \ {"handle_selection_clear"}         \* no_update
            /\ UNCHANGED <<stylesheet, last_selected, selected_rows>>
       ELSE /\ stylesheet' = get_directed_stylesheet
            /\ last_selected' = NoSelection
            /\ selected_rows' = <<>>
            /\ pending' = (pending \ {"handle_selection_clear"}) \cup OnSelectedRows
    /\ hist' = Ran("handle_selection_clear", FALSE, clear_clicks)
    /\ base_stylesheet' = base_stylesheet_after(stylesheet')
    /\ UNCHANGED <<dataVars, tapNodeData, table_data, elements>>

HandleTableReset(table_clicks) ==
    /\ "handle_table_reset" \in pending
    /\ IF table_clicks = 0
       THEN /\ pending' = pending \ {"handle_table_reset"}             \* no_update
            /\ UNCHANGED <<table_data, selected_rows>>
       ELSE /\ table_data' = original_table_data
            /\ selected_rows' = <<>>
            /\ pending' = (pending \ {"handle_table_reset"}) \cup OnSelectedRows
    /\ hist' = Ran("handle_table_reset", FALSE, table_clicks)
    /\ UNCHANGED <<loaderVars, tapNodeData, last_selected, stylesheet, elements>>

HandleStyleReset(style_clicks) ==
    /\ "handle_style_reset" \in pending
    /\ IF style_clicks = 0
       THEN UNCHANGED <<stylesheet, elements, last_selected>>          \* no_update
       ELSE /\ stylesheet' = get_directed_stylesheet
            /\ elements' = get_cytoscape_elements
            /\ last_selected' = NoSelection
    /\ pending' = pending \ {"handle_style_reset"}
    /\ hist' = Ran("handle_style_reset", FALSE, style_clicks)
    /\ base_stylesheet' = base_stylesheet_after(stylesheet')
    /\ UNCHANGED <<dataVars, tapNodeData, selected_rows, table_data>>

Callbacks(clicks) ==
    \/ UpdateStyles
    \/ FilterTable
    \/ UpdateEdgeDirectionAndHighlight
    \/ \E n \in clicks : HandleFullReset(n)
    \/ \E n \in clicks : HandleSelectionClear(n)
    \/ \E n \in clicks : HandleTableReset(n)
    \/ \E n \in clicks : HandleStyleReset(n)

\* a session: prevent_initial_call=True, so a button callback runs after a click
Next ==
    \/ \E v \in Range(graph.nodes) : TapNode(v)
    \/ \E i \in 0..(Len(table_data) - 1) : SelectRow(i)
    \/ \E b \in Buttons : Press(b)
    \/ Callbacks(1..MaxClicks)

Spec == Init /\ [][Next]_vars

-----------------------------------------------------------------------------
(* dash_graphml_csv.py and dash_refactored.py: update_styles *)

dash_graphml_csv_update_styles(rows, tap, last, data) ==
    IF tap # <<>>
    THEN LET current_selection == [type |-> "node", value |-> tap.id]
         IN IF last = current_selection
            THEN StyleResult(get_base_stylesheet, NoSelection)
            ELSE StyleResult(add_node_highlight(tap.id), current_selection)
    ELSE IF rows # <<>> /\ data # <<>>
    THEN IF rows[1] + 1 > Len(data) THEN Raised                 \* IndexError
         ELSE
         LET selected_row == data[rows[1] + 1]
             configured == Get(Get(config, "table", <<>>), "filter_columns", <<>>)
             filter_columns ==
                 IF configured = <<>>
                 THEN KeysPresent(<<"source", "target", "from", "to">>, selected_row)
                 ELSE configured
         IN IF Len(filter_columns) >= 2
            THEN IF \/ filter_columns[1] \notin DOMAIN selected_row
                    \/ filter_columns[2] \notin DOMAIN selected_row
                 THEN Raised                                    \* KeyError
                 ELSE LET source_node == Str(selected_row[filter_columns[1]])
                          target_node == Str(selected_row[filter_columns[2]])
                          current_selection == [type |-> "table", value |-> rows[1]]
                      IN IF last = current_selection
                         THEN StyleResult(get_base_stylesheet, NoSelection)
                         ELSE StyleResult(add_edge_highlight(source_node, target_node),
                                          current_selection)
            ELSE StyleResult(get_base_stylesheet, NoSelection)
    ELSE StyleResult(get_base_stylesheet, NoSelection)

dash_refactored_update_styles(rows, tap, last, data) ==
    IF tap # <<>>
    THEN LET current_selection == [type |-> "node", value |-> tap.id]
         IN IF last = current_selection
            THEN StyleResult(get_base_stylesheet, NoSelection)
            ELSE StyleResult(add_node_highlight(tap.id), current_selection)
    ELSE IF rows # <<>>
    THEN IF rows[1] + 1 > Len(data) THEN Raised                 \* IndexError
         ELSE
         LET selected_row == data[rows[1] + 1]
         IN IF "source" \notin DOMAIN selected_row \/ "target" \notin DOMAIN selected_row
            THEN Raised                                         \* KeyError
            ELSE LET current_selection == [type |-> "table", value |-> rows[1]]
                 IN IF last = current_selection
                    THEN StyleResult(get_base_stylesheet, NoSelection)
                    ELSE StyleResult(add_edge_highlight(selected_row["source"],
                                                        selected_row["target"]),
                                     current_selection)
    ELSE StyleResult(get_base_stylesheet, NoSelection)

\* utils/graph_loader.py: dash_refactored reads its nodes from the configuration
GraphConfig1 ==
    [layout |-> [default_node_style |->
                    ("background_color" :> "#cccccc") @@ ("shape" :> "ellipse")
                    @@ ("width" :> 60) @@ ("height" :> 60)],
     graph  |-> [nodes |->
                    <<[id |-> "A", style |-> ("background_color" :> "#4CAF50")
                                             @@ ("width" :> 80) @@ ("height" :> 80)],
                      [id |-> "B", style |-> ("background_color" :> "#2196F3")
                                             @@ ("width" :> 80) @@ ("height" :> 80)]>>]]

\* GraphConfigLoader.get_cytoscape_stylesheet: nodes without an icon
GraphConfigLoader_get_cytoscape_stylesheet ==
    LET default_style == GraphConfig1.layout.default_node_style
        nodes == GraphConfig1.graph.nodes
    IN <<Rule("node", ("label" :> "data(label)")
                      @@ ("background-color" :> default_style["background_color"])
                      @@ ("shape" :> default_style["shape"])
                      @@ ("width" :> default_style["width"])
                      @@ ("height" :> default_style["height"])
                      @@ ("text-valign" :> "bottom")
                      @@ ("text-margin-y" :> -5))>>
       \o [i \in 1..Len(nodes) |->
             Rule(NodeIdSelector(nodes[i].id),
                  ("label" :> "data(label)")
                  @@ ("background-color" :> nodes[i].style["background_color"])
                  @@ ("shape" :> "ellipse")
                  @@ ("width" :> nodes[i].style["width"])
                  @@ ("height" :> nodes[i].style["height"])
                  @@ ("text-valign" :> "bottom")
                  @@ ("text-margin-y" :> 5)
                  @@ ("color" :> "#333")
                  @@ ("font-size" :> "12px"))]
       \o <<Rule("edge", ("line-color" :> "#7FDBFF")
                         @@ ("target-arrow-color" :> "#7FDBFF")
                         @@ ("target-arrow-shape" :> "triangle")
                         @@ ("arrow-scale" :> "1.5")        \* the float 1.5
                         @@ ("curve-style" :> "bezier")
                         @@ ("label" :> "data(label)"))>>

\* dash_refactored.py: filter_table; row['source'] of a row without it raises
dash_refactored_filter_table(tap, original_data) ==
    IF tap = <<>> THEN [raised |-> FALSE, data |-> original_data]
    ELSE IF \E k \in 1..Len(original_data) :
               \/ "source" \notin DOMAIN original_data[k]
               \/ original_data[k]["source"] # tap.id
                  /\ "target" \notin DOMAIN original_data[k]
         THEN Raised                                            \* KeyError
         ELSE LET filtered_data ==
                      SelectSeq(original_data,
                                LAMBDA row : row["source"] = tap.id \/ row["target"] = tap.id)
              IN [raised |-> FALSE,
                  data |-> IF filtered_data # <<>> THEN filtered_data ELSE original_data]

RefactoredFilterTable ==
    /\ "dash_refactored.filter_table" \in pending
    /\ LET r == dash_refactored_filter_table(tapNodeData, table_data)
       IN /\ IF r.raised THEN UNCHANGED table_data ELSE table_data' = r.data
          /\ hist' = Ran("dash_refactored.filter_table", r.raised, 0)
    /\ pending' = pending \ {"dash_refactored.filter_table"}
    /\ UNCHANGED <<loaderVars, tapNodeData, selected_rows, last_selected, stylesheet,
                   elements>>

UpdateStylesOf(name, r) ==
    /\ name \in pending
    /\ IF r.raised
       THEN UNCHANGED <<stylesheet, last_selected>>
       ELSE stylesheet' = r.stylesheet /\ last_selected' = r.selected
    /\ hist' = Ran(name, r.raised, 0)
    /\ pending' = pending \ {name}
    /\ base_stylesheet' = base_stylesheet_after(stylesheet')
    /\ UNCHANGED <<dataVars, tapNodeData, selected_rows, table_data, elements>>

CsvUpdateStyles ==
    UpdateStylesOf("dash_graphml_csv.update_styles",
                   dash_graphml_csv_update_styles(selected_rows, tapNodeData,
                                                  last_selected, table_data))

RefactoredUpdateStyles ==
    UpdateStylesOf("dash_refactored.update_styles",
                   dash_refactored_update_styles(selected_rows, tapNodeData,
                                                 last_selected, table_data))

-----------------------------------------------------------------------------
(* The callbacks as functions of their arguments: one call of one callback,  *)
(* on every combination of property values of the bounded sets below.        *)

MaxRowIndex == 3     \* selected_rows holds an index up to this one

SimpleCallbacks == {"dash_graphml_csv.update_styles", "dash_refactored.update_styles"}

AdvancedCallbacks ==
    {"update_styles", "filter_table", "update_edge_direction_and_highlight"} \cup Buttons

RefactoredCallbacks == {"dash_refactored.update_styles", "dash_refactored.filter_table"}

TapValues == {<<>>} \cup {[id |-> v] : v \in NodeIds \cup {"Z"}}

RowValues == {<<>>} \cup {<<i>> : i \in 0..MaxRowIndex}

Selections ==
    {NoSelection}
    \cup {[type |-> "node", value |-> v] : v \in NodeIds \cup {"Z"}}
    \cup {[type |-> "table", value |-> i] : i \in 0..MaxRowIndex}

InitHandlers ==
    /\ graph \in Graphs
    /\ config \in Configs
    /\ original_table_data \in Tables
    /\ pending \in {{c} : c \in AdvancedCallbacks \cup SimpleCallbacks
                                  \cup {"dash_refactored.filter_table"}}
    /\ base_stylesheet = IF pending \subseteq RefactoredCallbacks
                         THEN GraphConfigLoader_get_cytoscape_stylesheet
                         ELSE get_cytoscape_stylesheet
    /\ tapNodeData \in TapValues
    /\ selected_rows \in RowValues
    /\ table_data \in {SubSeq(original_table_data, 1, k) :
                         k \in 0..Len(original_table_data)}
    /\ last_selected \in Selections
    /\ stylesheet = base_stylesheet
    /\ elements \in {get_cytoscape_elements, get_directed_cytoscape_elements("A", "B")}
    /\ hist = NoHistory(<<[ev |-> "more"]>>)
    /\ sampleapp_not_started

NextHandlers ==
    \/ Callbacks(0..MaxClicks)
    \/ CsvUpdateStyles
    \/ RefactoredUpdateStyles
    \/ RefactoredFilterTable

HandlerSpec == InitHandlers /\ [][NextHandlers]_vars

-----------------------------------------------------------------------------
(* _merge_stylesheets as a function of two layers.  The base layer of every   *)
(* call in the program is get_directed_stylesheet(): it is not empty and no   *)
(* selector occurs twice in it.  The additional layer is any list of rules.   *)

MaxLayerLen == 2

LayerRules == {Rule(sel, ("color" :> c)) : sel \in {"node", "edge"}, c \in {"red", "blue"}}
              \cup {[style |-> ("color" :> "red")]}      \* a rule without a selector

Layers == UNION {[1..n -> LayerRules] : n \in 0..MaxLayerLen}

NoRepeatedSelector(styles) ==
    \A i, j \in 1..Len(styles) :
        ("selector" \in DOMAIN styles[i] /\ "selector" \in DOMAIN styles[j]
         /\ styles[i].selector = styles[j].selector) => i = j

BaseLayers ==
    {l \in Layers : /\ l # <<>>
                    /\ NoRepeatedSelector(l)
                    /\ \A i \in 1..Len(l) : "selector" \in DOMAIN l[i]}

InitMerge ==
    /\ graph = Graph1
    /\ config = Config(<<>>)
    /\ original_table_data = Table1
    /\ setup_layout
    /\ sampleapp_not_started
    /\ pending = {}
    /\ hist = [op |-> "idle"]

MergeStylesheets(base_styles, additional_styles) ==
    /\ hist.op = "idle"
    /\ hist' = [op |-> "_merge_stylesheets", base_styles |-> base_styles,
                additional_styles |-> additional_styles,
                result |-> _merge_stylesheets(base_styles, additional_styles)]
    /\ UNCHANGED <<loaderVars, tapNodeData, selected_rows, table_data, last_selected,
                   stylesheet, elements, pending>>

NextMerge == \E a \in BaseLayers, b \in Layers : MergeStylesheets(a, b)

MergeSpec == InitMerge /\ [][NextMerge]_vars

-----------------------------------------------------------------------------
(* GraphMLCSVConfigLoader.get_grouped_layout_config.  A coordinate is a       *)
(* fraction <<numerator, denominator>> in lowest terms, denominator > 0: the  *)
(* divisions of the code are exact here, a float rounds them.                 *)

RECURSIVE Gcd(_, _)
Gcd(a, b) == IF b = 0 THEN a ELSE Gcd(b, a % b)

Abs(a) == IF a < 0 THEN -a ELSE a

Frac(num, den) ==
    LET g == Gcd(Abs(num), Abs(den))
        sign == IF den < 0 THEN -1 ELSE 1
    IN <<sign * (num \div g), sign * (den \div g)>>

FracOf(n) == <<n, 1>>
FracAdd(a, b) == Frac(a[1] * b[2] + b[1] * a[2], a[2] * b[2])
FracMul(a, b) == Frac(a[1] * b[1], a[2] * b[2])
FracDiv(a, b) == Frac(a[1] * b[2], a[2] * b[1])
FracMin(a, b) == IF a[1] * b[2] <= b[1] * a[2] THEN a ELSE b

Max(a, b) == IF a >= b THEN a ELSE b

\* defect: the spacing is not limited by the extent of the axis
BucketSpacing_fixed(count, max_spacing, extent) == FracOf(max_spacing)

\* min(150, 600 / max(1, count - 1)) if count > 1 else 150
BucketSpacing(count, max_spacing, extent) ==
    IF count > 1
    THEN FracMin(FracOf(max_spacing), FracDiv(FracOf(extent), FracOf(Max(1, count - 1))))
    ELSE FracOf(max_spacing)

\* start = -(count - 1) * spacing / 2; position i is start + i * spacing
BucketOffsets(count, spacing) ==
    LET start == FracDiv(FracMul(FracOf(-(count - 1)), spacing), FracOf(2))
    IN [k \in 1..count |-> FracAdd(start, FracMul(FracOf(k - 1), spacing))]

\* node_data.get('type', node_data.get('category', 'default')).lower()
LayoutBucket(node_data) ==
    LET node_type == Lower(Get(node_data, "type", Get(node_data, "category", "default")))
    IN IF node_type \in {"interface", "processer", "storage"} THEN node_type ELSE "other"

BucketNodes(bucket) ==
    SelectSeq(graph.nodes, LAMBDA n : LayoutBucket(graph.ndata[n]) = bucket)

VerticalPositions(nodes, x) ==
    LET offsets == BucketOffsets(Len(nodes), BucketSpacing(Len(nodes), 150, 600))
    IN [k \in 1..Len(nodes) |-> [id |-> Str(nodes[k]), x |-> FracOf(x), y |-> offsets[k]]]

HorizontalPositions(nodes, y) ==
    LET offsets == BucketOffsets(Len(nodes), BucketSpacing(Len(nodes), 120, 400))
    IN [k \in 1..Len(nodes) |-> [id |-> Str(nodes[k]), x |-> offsets[k], y |-> FracOf(y)]]

\* preset_positions: the nodes' ids differ, so no entry replaces another
preset_positions ==
    LET placed == VerticalPositions(BucketNodes("interface"), -300)
                  \o VerticalPositions(BucketNodes("processer"), 0)
                  \o VerticalPositions(BucketNodes("storage"), 300)
                  \o HorizontalPositions(BucketNodes("other"), -200)
    IN [n \in {placed[k].id : k \in 1..Len(placed)} |->
          LET k == CHOOSE j \in 1..Len(placed) : placed[j].id = n
          IN [x |-> placed[k].x, y |-> placed[k].y]]

get_grouped_layout_config ==
    [name |-> "preset", positions |-> preset_positions, fit |-> TRUE, padding |-> 100,
     animate |-> TRUE, animationDuration |-> 1500, animationEasing |-> "ease-in-out"]

(* sampleapp: the random-message task *)

Unused == {t \in Threads : task_thread[t] = "none"}

\* if not random_message_generator.is_running: threading.Thread(...).start()
start_thread_if_not_running ==
    /\ IF is_running
       THEN UNCHANGED task_thread
       ELSE task_thread' = [task_thread EXCEPT ![CHOOSE t \in Unused :
                                                   \A u \in Unused : t <= u] = "started"]
    /\ UNCHANGED is_running

\* PostConsumer.connect
Connect(c) ==
    /\ consumer[c] = "closed"
    /\ is_running \/ Unused # {}
    /\ consumer' = [consumer EXCEPT ![c] = "connected"]
    /\ start_thread_if_not_running
    /\ UNCHANGED <<dashVars, app_ready>>

\* PostConsumer.disconnect
Disconnect(c) ==
    /\ consumer[c] = "connected"
    /\ consumer' = [consumer EXCEPT ![c] = "closed"]
    /\ UNCHANGED <<dashVars, is_running, task_thread, app_ready>>

\* SampleappConfig.ready: start_random_message_task() five seconds after start
start_random_message_task ==
    /\ ~app_ready
    /\ is_running \/ Unused # {}
    /\ app_ready' = TRUE
    /\ start_thread_if_not_running
    /\ UNCHANGED <<dashVars, consumer>>

\* start_random_messages: if self.is_running: return
CheckRunning(t) ==
    /\ task_thread[t] = "started"
    /\ task_thread' = [task_thread EXCEPT ![t] = IF is_running THEN "done" ELSE "set"]
    /\ UNCHANGED <<dashVars, is_running, consumer, app_ready>>

\* start_random_messages: self.is_running = True
SetRunning(t) ==
    /\ task_thread[t] = "set"
    /\ is_running' = TRUE
    /\ task_thread' = [task_thread EXCEPT ![t] = "while"]
    /\ UNCHANGED <<dashVars, consumer, app_ready>>

\* start_random_messages: while self.is_running
LoopTest(t) ==
    /\ task_thread[t] = "while"
    /\ task_thread' = [task_thread EXCEPT ![t] = IF is_running THEN "sleep" ELSE "done"]
    /\ UNCHANGED <<dashVars, is_running, consumer, app_ready>>

\* start_random_messages: the sleep ends, the message is sent if still running
Wake(t) ==
    /\ task_thread[t] = "sleep"
    /\ task_thread' = [task_thread EXCEPT ![t] = "while"]
    /\ UNCHANGED <<dashVars, is_running, consumer, app_ready>>

\* RandomMessageGenerator.stop: self.task is never set, nothing is cancelled
stop ==
    /\ is_running
    /\ is_running' = FALSE
    /\ UNCHANGED <<dashVars, task_thread, consumer, app_ready>>

InitTasks ==
    /\ graph = Graph1
    /\ config = Config(<<>>)
    /\ original_table_data = Table1
    /\ setup_layout
    /\ sampleapp_not_started
    /\ pending = {}
    /\ hist = [op |-> "idle"]

NextTasks ==
    \/ \E c \in Connections : Connect(c)
    \/ \E c \in Connections : Disconnect(c)
    \/ start_random_message_task
    \/ \E t \in Threads : CheckRunning(t)
    \/ \E t \in Threads : SetRunning(t)
    \/ \E t \in Threads : LoopTest(t)
    \/ \E t \in Threads : Wake(t)
    \/ stop

TaskSpec == InitTasks /\ [][NextTasks]_vars

(* sessions over tables with other join-key columns *)

RowOf(a, b, s, t) == (a :> s) @@ (b :> t)

\* a CSV with the columns sender, receiver
Table3 == <<RowOf("sender", "receiver", "A", "B"), RowOf("sender", "receiver", "B", "C")>>

\* a CSV with the columns source, to
Table4 == <<RowOf("source", "to", "A", "B"), RowOf("source", "to", "B", "A")>>

JoinKeyTables == {Table2, Table3, Table4}

InitJoinKeys ==
    /\ graph \in Graphs
    /\ config \in Configs
    /\ original_table_data \in JoinKeyTables
    /\ setup_layout
    /\ sampleapp_not_started
    /\ pending = {"update_styles", "filter_table"}
    /\ hist = NoHistory(<<>>)

JoinKeySpec == InitJoinKeys /\ [][Next]_vars

(* the layout of every graph of up to MaxLayoutNodes nodes *)

MaxLayoutNodes == 6

LayoutIds == <<"n1", "n2", "n3", "n4", "n5", "n6", "n7", "n8", "n9", "n10">>

LayoutNodeData ==
    {("type" :> "Interface"), ("type" :> "processer"), ("type" :> "Storage"), <<>>}

\* the first node may also name its type by 'category' or by 'kind'
FirstNodeData ==
    LayoutNodeData \cup {("category" :> "Interface"), ("kind" :> "Storage")}

LayoutGraphs ==
    UNION {LET nodes == SubSeq(LayoutIds, 1, k)
           IN {[nodes |-> nodes, ndata |-> ndata, edges |-> <<>>, edata |-> <<>>] :
                  ndata \in {f \in [Range(nodes) -> FirstNodeData] :
                                \A n \in Range(nodes) \ {nodes[1]} :
                                    f[n] \in LayoutNodeData}} :
           k \in 1..MaxLayoutNodes}

InitLayout ==
    /\ graph \in LayoutGraphs
    /\ config = Config(<<>>)
    /\ original_table_data = <<>>
    /\ setup_layout
    /\ sampleapp_not_started
    /\ pending = {"handle_layout_change"}
    /\ hist = [op |-> "layout"]

\* handle_layout_change for the group-layout button
HandleLayoutChange(group_clicks) ==
    /\ "handle_layout_change" \in pending
    /\ pending' = {}
    /\ hist' = [op |-> "handle_layout_change", clicks |-> group_clicks,
                layout |-> IF group_clicks = 0 THEN <<>> ELSE get_grouped_layout_config]
    /\ UNCHANGED <<loaderVars, tapNodeData, selected_rows, table_data, last_selected,
                   stylesheet, elements>>

NextLayout == \E n \in 0..MaxClicks : HandleLayoutChange(n)

LayoutSpec == InitLayout /\ [][NextLayout]_vars

(* the layout of every combination of bucket sizes of up to MaxBucketNodes nodes *)

MaxBucketNodes == 8

\* a graph of i interface, p processer, s storage and o untyped nodes
BucketGraph(i, p, s, o) ==
    LET nodes == SubSeq(LayoutIds, 1, i + p + s + o)
    IN [nodes |-> nodes,
        ndata |-> [n \in Range(nodes) |->
                     LET k == CHOOSE j \in 1..Len(nodes) : nodes[j] = n
                     IN IF k <= i THEN ("type" :> "Interface")
                        ELSE IF k <= i + p THEN ("type" :> "processer")
                        ELSE IF k <= i + p + s THEN ("type" :> "Storage")
                        ELSE <<>>],
        edges |-> <<>>, edata |-> <<>>]

BucketGraphs ==
    {BucketGraph(c[1], c[2], c[3], c[4]) :
        c \in {d \in (0..MaxBucketNodes) \X (0..MaxBucketNodes)
                      \X (0..MaxBucketNodes) \X (0..MaxBucketNodes) :
                  d[1] + d[2] + d[3] + d[4] \in 1..MaxBucketNodes}}

InitBuckets ==
    /\ graph \in BucketGraphs
    /\ config = Config(<<>>)
    /\ original_table_data = <<>>
    /\ setup_layout
    /\ sampleapp_not_started
    /\ pending = {"handle_layout_change"}
    /\ hist = [op |-> "layout"]

BucketSpec == InitBuckets /\ [][NextLayout]_vars

-----------------------------------------------------------------------------
(* The elements of graphs whose node A or edge (A,B) has any combination of   *)
(* the candidate attributes, each absent, empty or set.                       *)

NodeLabelKeys == <<"label", "name", "title", "id">>
NodeTypeKeys  == <<"type", "category", "kind", "class">>
EdgeLabelKeys == <<"label", "name", "title", "relation">>

\* every dict over some of `keys`; the value of key k is "" or "k!"
AttributeDicts(keys) ==
    UNION {[present -> {"", "!"}] : present \in SUBSET Range(keys)}

Valued(d) == [k \in DOMAIN d |-> IF d[k] = "" THEN "" ELSE k \o "!"]

AttributeGraph(node_data, edge_data) ==
    [nodes |-> <<"A", "B">>,
     ndata |-> [n \in {"A", "B"} |-> IF n = "A" THEN node_data ELSE <<>>],
     edges |-> << <<"A", "B">> >>,
     edata |-> [e \in {<<"A", "B">>} |-> edge_data]]

AttributeGraphs ==
    {AttributeGraph(Valued(d), <<>>) : d \in AttributeDicts(NodeLabelKeys)}
    \cup {AttributeGraph(Valued(d), <<>>) : d \in AttributeDicts(NodeTypeKeys)}
    \cup {AttributeGraph(<<>>, Valued(d)) : d \in AttributeDicts(EdgeLabelKeys)}

InitAttributes ==
    /\ graph \in AttributeGraphs
    /\ config = Config(<<>>)
    /\ original_table_data = Table1
    /\ setup_layout
    /\ sampleapp_not_started
    /\ pending = {"handle_style_reset"}
    /\ hist = NoHistory(<<[ev |-> "more"]>>)

NextAttributes == \E n \in 0..MaxClicks : HandleStyleReset(n)

AttributeSpec == InitAttributes /\ [][NextAttributes]_vars

-----------------------------------------------------------------------------
(* Properties *)

Node(v) == [type |-> "node", value |-> v]
TableRow(i) == [type |-> "table", value |-> i]

UpdateStylesCallbacks == {"update_styles"} \cup SimpleCallbacks

\* the update_styles of the application the callback belongs to
UpdateStylesBy(callback, tap, rows, last, data) ==
    CASE callback = "dash_graphml_csv.update_styles" ->
             dash_graphml_csv_update_styles(rows, tap, last, data)
      [] callback = "dash_refactored.update_styles" ->
             dash_refactored_update_styles(rows, tap, last, data)
      [] OTHER -> update_styles(tap, rows, last, data)

\* the two columns a callback joins a row to the graph on
JoinKeyColumns(callback, row) ==
    LET configured == Get(Get(config, "table", <<>>), "filter_columns", <<>>)
    IN IF callback = "dash_refactored.update_styles" THEN <<"source", "target">>
       ELSE IF configured = <<>>
            THEN KeysPresent(<<"source", "target", "from", "to">>, row)
            ELSE configured

CarriesJoinKeys(callback, row) ==
    LET columns == JoinKeyColumns(callback, row)
    IN /\ Len(columns) >= 2
       /\ columns[1] \in DOMAIN row
       /\ columns[2] \in DOMAIN row

\* C1: update_styles called with a tapped node v and a selection s (none, a
\* node, a table row) returns the selection none if s is node(v) and node(v)
\* otherwise; and called a second time with the selection it returned for
\* s = none, it returns none.  Checked under HandlerSpec for the update_styles
\* of each of the three applications.
C1_NodeTapToggles ==
    (hist.op \in UpdateStylesCallbacks /\ tapNodeData # <<>>) =>
        LET v     == tapNodeData.id
            first == UpdateStylesBy(hist.op, tapNodeData, hist.rows, NoSelection, hist.data)
        IN /\ ~hist.raised
           /\ last_selected = IF hist.pre = Node(v) THEN NoSelection ELSE Node(v)
           /\ ~first.raised
           /\ UpdateStylesBy(hist.op, tapNodeData, hist.rows, first.selected,
                             hist.data).selected = NoSelection

C1_Witness ==
    /\ hist.op = "update_styles"
    /\ tapNodeData = [id |-> "A"]
    /\ hist.pre = Node("A")
    /\ last_selected = NoSelection

C4_NodeTapDecides ==
    (hist.op \in {"update_styles", "dash_graphml_csv.update_styles"}) =>
        /\ (tapNodeData # <<>> /\ hist.rows # <<>>) =>
              LET v == tapNodeData.id
                  deselected == IF hist.op = "update_styles"
                                THEN get_directed_stylesheet
                                ELSE get_base_stylesheet
              IN /\ ~hist.raised
                 /\ last_selected = IF hist.pre = Node(v) THEN NoSelection ELSE Node(v)
                 /\ stylesheet = IF hist.pre = Node(v) THEN deselected
                                 ELSE add_node_highlight(v)
        /\ (~hist.raised /\ last_selected.type = "table") => tapNodeData = <<>>

C4_Witness ==
    /\ hist.op = "update_styles"
    /\ tapNodeData = [id |-> "A"]
    /\ hist.rows = <<0>>
    /\ hist.data # <<>>
    /\ hist.pre = TableRow(0)
    /\ last_selected = Node("A")

\* C5: _merge_stylesheets(A, B), for a layer A as the application passes it
\* (not empty, no selector twice) and any layer B: the result starts with A,
\* every rule after A is a rule of B whose selector is in no earlier rule of
\* the result, and for a selector that A and B share the result has exactly
\* one rule, the rule of A.
C5_MergeFirstWins ==
    (hist.op = "_merge_stylesheets") =>
        LET A == hist.base_styles
            B == hist.additional_styles
            R == hist.result
        IN /\ Len(R) >= Len(A)
           /\ SubSeq(R, 1, Len(A)) = A
           /\ \A k \in (Len(A) + 1)..Len(R) :
                 /\ R[k] \in Range(B)
                 /\ "selector" \in DOMAIN R[k]
                 /\ R[k].selector \notin Selectors(SubSeq(R, 1, k - 1))
           /\ \A sel \in Selectors(A) \cap Selectors(B) :
                 \E k \in 1..Len(A) :
                     /\ R[k] = A[k]
                     /\ A[k].selector = sel
                     /\ \A j \in 1..Len(R) :
                           ("selector" \in DOMAIN R[j] /\ R[j].selector = sel) => j = k

C5_Witness ==
    /\ hist.op = "_merge_stylesheets"
    /\ \E sel \in Selectors(hist.base_styles) \cap Selectors(hist.additional_styles) :
          /\ \E k \in 1..Len(hist.additional_styles) :
                /\ hist.additional_styles[k] \notin Range(hist.base_styles)
                /\ "selector" \in DOMAIN hist.additional_styles[k]
                /\ hist.additional_styles[k].selector = sel
    /\ Len(hist.result) > Len(hist.base_styles)

EdgeElements(elems) == SelectSeq(elems, LAMBDA e : "source" \in DOMAIN e.data)

\* the row update_edge_direction_and_highlight was called with, <<>> if none
CalledRow ==
    IF hist.rows = <<>> \/ hist.data = <<>> \/ hist.rows[1] + 1 > Len(hist.data)
    THEN <<>>
    ELSE hist.data[hist.rows[1] + 1]

\* the active directed pair of that call, <<>> if it has none
ActivePair ==
    IF /\ CalledRow # <<>>
       /\ Truthy(Get(CalledRow, "source", ""))
       /\ Truthy(Get(CalledRow, "target", ""))
    THEN _extract_connection_info(CalledRow)
    ELSE <<>>

\* C6: every stylesheet displayed in a session has no two rules with the same
\* selector.  Violated: a selected row whose source and target are the same
\* node gets two rules with that node's selector from add_edge_highlight.
C6_NoRepeatedSelector == NoRepeatedSelector(stylesheet)

\* C7: in the elements update_edge_direction_and_highlight returns for a row
\* with the active pair (S,T), an edge is marked directed, and classed
\* 'directed', if and only if its source is S and its target is T; every other
\* edge, the reversed edge (T,S) too, is marked and classed undirected.
C7_DirectedIffExactPair ==
    (/\ hist.op = "update_edge_direction_and_highlight"
     /\ ~hist.raised
     /\ ActivePair # <<>>) =>
        \A k \in 1..Len(elements) :
            LET e == elements[k]
            IN "source" \in DOMAIN e.data =>
                  /\ e.data["directed"] = (/\ e.data["source"] = ActivePair[1]
                                           /\ e.data["target"] = ActivePair[2])
                  /\ e.classes = IF e.data["directed"] THEN "directed" ELSE "undirected"

C7_Witness ==
    /\ hist.op = "update_edge_direction_and_highlight"
    /\ ActivePair = <<"A", "B">>
    /\ \E k \in 1..Len(elements) :
          /\ "source" \in DOMAIN elements[k].data
          /\ elements[k].data["source"] = "A" /\ elements[k].data["target"] = "B"
          /\ elements[k].data["directed"]
    /\ \E k \in 1..Len(elements) :
          /\ "source" \in DOMAIN elements[k].data
          /\ elements[k].data["source"] = "B" /\ elements[k].data["target"] = "A"
          /\ ~elements[k].data["directed"]

\* the elements of the graph with the edge `pair` directed (none for <<>>)
Projection(pair) ==
    _create_node_elements
    \o [i \in 1..Len(graph.edges) |->
          EdgeElement(graph.edges[i][1], graph.edges[i][2],
                      pair # <<>> /\ graph.edges[i] = pair)]

\* C8: the elements displayed after a projection depend on the graph and the
\* active pair of that projection only, whatever the elements displayed before
\* were: after update_edge_direction_and_highlight they are the projection of
\* its pair, and after a call without a pair, a style reset or a full reset
\* every edge is undirected.
C8_ProjectionStateless ==
    /\ (hist.op = "update_edge_direction_and_highlight" /\ ~hist.raised) =>
          elements = Projection(ActivePair)
    /\ (hist.op \in {"handle_style_reset", "handle_full_reset"} /\ hist.clicks >= 1) =>
          elements = Projection(<<>>)
    /\ elements \in {Projection(<<>>)}
                    \cup {Projection(graph.edges[i]) : i \in 1..Len(graph.edges)}

\* a second row is selected while the edge of the first one is displayed directed
C8_Witness ==
    /\ hist.op = "update_edge_direction_and_highlight"
    /\ ActivePair = <<"B", "A">>
    /\ hist.elements = Projection(<<"A", "B">>)
    /\ elements = Projection(<<"B", "A">>)

\* C9: when a session that began with two taps of the same node has run the
\* callbacks of the second tap, the stylesheet is the one displayed before
\* the first tap and the selection is none.  Violated: the stylesheet before
\* the first tap is the one update_styles returned at page load,
\* get_base_stylesheet(); after the second tap it is get_directed_stylesheet().
C9_TapTwiceRestoresStylesheet ==
    (/\ Len(hist.run) = 2
     /\ hist.run[1].ev = "tap"
     /\ hist.run[2] = hist.run[1]
     /\ pending = {}) =>
        /\ stylesheet = hist.start_sheet
        /\ last_selected = NoSelection

ExpectedOffset(n, i, max_spacing, extent) ==
    LET spacing == IF n > 1
                   THEN FracMin(FracOf(max_spacing), Frac(extent, n - 1))
                   ELSE FracOf(max_spacing)
        start   == Frac(-(n - 1) * spacing[1], 2 * spacing[2])
    IN Frac(start[1] * spacing[2] + i * spacing[1] * start[2], start[2] * spacing[2])

\* the nodes before node k of graph.nodes that are in the bucket of node k
IndexInBucket(k) ==
    Cardinality({j \in 1..(k - 1) :
                    LayoutBucket(graph.ndata[graph.nodes[j]])
                    = LayoutBucket(graph.ndata[graph.nodes[k]])})

BucketSize(bucket) ==
    Cardinality({j \in 1..Len(graph.nodes) :
                    LayoutBucket(graph.ndata[graph.nodes[j]]) = bucket})

BucketX(bucket) ==
    CASE bucket = "interface" -> -300
      [] bucket = "processer" -> 0
      [] bucket = "storage"   -> 300

\* C11: the grouped layout places node i (0-based, graph order) of an
\* interface / processer / storage bucket of n nodes at
\* (-300 / 0 / 300, startY + i*spacing), spacing = min(150, 600/(n-1)) for n > 1
\* and 150 for n = 1, startY = -(n-1)*spacing/2, and node i of the other bucket
\* at (startX + i*spacing, -200), spacing = min(120, 400/(n-1)) for n > 1 and
\* 120 for n = 1; an interface bucket of 3 nodes gets y = -150, 0, 150 at
\* x = -300.
C11_GroupedLayoutPositions ==
    (hist.op = "handle_layout_change" /\ hist.clicks >= 1) =>
        LET positions == hist.layout.positions
        IN /\ DOMAIN positions = Range(graph.nodes)
           /\ \A k \in 1..Len(graph.nodes) :
                 LET bucket == LayoutBucket(graph.ndata[graph.nodes[k]])
                     n == BucketSize(bucket)
                     i == IndexInBucket(k)
                     at == positions[graph.nodes[k]]
                 IN IF bucket = "other"
                    THEN /\ at.x = ExpectedOffset(n, i, 120, 400)
                         /\ at.y = FracOf(-200)
                    ELSE /\ at.x = FracOf(BucketX(bucket))
                         /\ at.y = ExpectedOffset(n, i, 150, 600)
           /\ BucketSize("interface") = 3 =>
                 LET nodes == BucketNodes("interface")
                 IN /\ \A k \in 1..3 : positions[nodes[k]].x = FracOf(-300)
                    /\ <<positions[nodes[1]].y, positions[nodes[2]].y, positions[nodes[3]].y>>
                          = <<FracOf(-150), FracOf(0), FracOf(150)>>

\* a bucket of six nodes: 600/5 = 120 is below the spacing 150
C11_Witness ==
    /\ hist.op = "handle_layout_change"
    /\ hist.clicks >= 1
    /\ BucketSize("storage") = 6
    /\ hist.layout.positions["n1"] = [x |-> FracOf(300), y |-> FracOf(-300)]
    /\ hist.layout.positions["n2"] = [x |-> FracOf(300), y |-> FracOf(-180)]

\* the columns filter_table_by_node compares with the node id
FilterColumns(data) ==
    LET configured == Get(Get(config, "table", <<>>), "filter_columns", <<>>)
    IN IF configured # <<>> THEN configured
       ELSE KeysPresent(<<"source", "target", "from", "to", "sender", "receiver">>, data[1])

\* row references node id v by one of the columns
References(row, v, columns) ==
    \E i \in 1..Len(columns) : columns[i] \in DOMAIN row /\ row[columns[i]] = v

HasSourceTarget(data) ==
    \A k \in 1..Len(data) : {"source", "target"} \subseteq DOMAIN data[k]

\* C12: filter_table / filter_table_by_node called with a node id that no row
\* references returns the rows it was given, same length and order, and for a
\* table that is not empty it never returns an empty list.  For
\* dash_refactored the rows have the columns source and target, as the rows
\* its loader builds.
C12_FilterFailsOpen ==
    /\ (hist.op = "filter_table" /\ tapNodeData # <<>> /\ hist.data # <<>>) =>
          /\ table_data # <<>>
          /\ (\A k \in 1..Len(hist.data) :
                 ~References(hist.data[k], tapNodeData.id, FilterColumns(hist.data)))
             => table_data = hist.data
    /\ (/\ hist.op = "dash_refactored.filter_table"
        /\ tapNodeData # <<>>
        /\ hist.data # <<>>
        /\ HasSourceTarget(hist.data)) =>
          /\ ~hist.raised
          /\ table_data # <<>>
          /\ (\A k \in 1..Len(hist.data) :
                 ~References(hist.data[k], tapNodeData.id, <<"source", "target">>))
             => table_data = hist.data

C12_Witness ==
    /\ hist.op = "filter_table"
    /\ tapNodeData = [id |-> "Z"]
    /\ hist.data = Table1
    /\ table_data = Table1

\* the indices of the rows of data that reference v, ascending
RECURSIVE Ascending(_)
Ascending(S) ==
    IF S = {} THEN <<>>
    ELSE LET least == CHOOSE x \in S : \A y \in S : x <= y
         IN <<least>> \o Ascending(S \ {least})

\* C13: when a row references the node id, filter_table_by_node returns
\* exactly the rows in which a resolved join column (the configured
\* filter_columns, else the candidate columns the first row has) equals the
\* node id, each such row once, in the order of the input.
C13_FilterKeepsReferencingRows ==
    (hist.op = "filter_table" /\ tapNodeData # <<>> /\ hist.data # <<>>) =>
        LET columns == FilterColumns(hist.data)
            hits == Ascending({k \in 1..Len(hist.data) :
                                  References(hist.data[k], tapNodeData.id, columns)})
        IN hits # <<>> =>
              /\ Len(table_data) = Len(hits)
              /\ \A j \in 1..Len(hits) : table_data[j] = hist.data[hits[j]]

\* node C: the row (C,C) references it by both columns and is kept once
C13_Witness ==
    /\ hist.op = "filter_table"
    /\ tapNodeData = [id |-> "C"]
    /\ hist.data = Table1
    /\ table_data = <<Row("C", "C")>>

\* the value of the first of `keys` that `data` has with a non-empty value
FirstQualifying(data, keys, fallback) ==
    LET qualifying == {i \in 1..Len(keys) : keys[i] \in DOMAIN data /\ data[keys[i]] # ""}
    IN IF qualifying = {} THEN fallback
       ELSE data[keys[CHOOSE i \in qualifying : \A j \in qualifying : i <= j]]

\* C14: in the elements built from a graph, a node's label is the value of
\* the first of label, name, title, id that the node has with a non-empty
\* value, else the node id; its Type the first of type, category, kind, class,
\* else "default"; an edge's label the first of label, name, title, relation,
\* else "source->target".
C14_FirstQualifyingAttribute ==
    (hist.op = "handle_style_reset" /\ hist.clicks >= 1 /\ graph \in AttributeGraphs) =>
        /\ \A k \in 1..Len(graph.nodes) :
              LET n == graph.nodes[k]
              IN /\ elements[k].data["id"] = n
                 /\ elements[k].data["label"]
                       = FirstQualifying(graph.ndata[n], NodeLabelKeys, n)
                 /\ elements[k].data["Type"]
                       = FirstQualifying(graph.ndata[n], NodeTypeKeys, "default")
        /\ \A k \in 1..Len(graph.edges) :
              LET e == graph.edges[k]
              IN elements[Len(graph.nodes) + k].data["label"]
                    = FirstQualifying(graph.edata[e], EdgeLabelKeys, e[1] \o "->" \o e[2])

\* label is present but empty, name is absent, title is set: the label is the title
C14_Witness ==
    /\ hist.op = "handle_style_reset"
    /\ hist.clicks >= 1
    /\ graph \in AttributeGraphs
    /\ graph.ndata["A"] = ("label" :> "") @@ ("title" :> "title!") @@ ("id" :> "id!")
    /\ elements[1].data["label"] = "title!"
    /\ elements[2].data["label"] = "B"
    /\ elements[2].data["Type"] = "default"
    /\ elements[3].data["label"] = "A->B"

\* C15: in every state of a session the style manager's base stylesheet is
\* the one the session started with (the stylesheet of the graph and the
\* configuration), whatever highlights, directed stylesheets, merges and resets
\* were computed; and the stylesheet update_styles returns for a newly
\* selected node is that base plus exactly one rule, for the node's id.
C15_BaseStylesheetUntouched ==
    /\ base_stylesheet = get_cytoscape_stylesheet
    /\ (hist.op = "update_styles" /\ ~hist.raised /\ last_selected.type = "node") =>
          /\ Len(stylesheet) = Len(get_cytoscape_stylesheet) + 1
          /\ SubSeq(stylesheet, 1, Len(get_cytoscape_stylesheet)) = get_cytoscape_stylesheet
          /\ stylesheet[Len(stylesheet)]
                = Rule(NodeIdSelector(last_selected.value), Border("red", 4))

\* a node highlight computed after an edge highlight and a merge
C15_Witness ==
    /\ hist.op = "update_styles"
    /\ hist.pre = TableRow(0)
    /\ last_selected = Node("B")
    /\ elements = Projection(<<"A", "B">>)
    /\ base_stylesheet = get_cytoscape_stylesheet
    /\ stylesheet = get_cytoscape_stylesheet
                    \o <<Rule(NodeIdSelector("B"), Border("red", 4))>>

\* the call recorded in hist was handed a selected row index past the end of
\* a non-empty table
RowIndexOutOfBounds ==
    /\ hist.rows # <<>>
    /\ hist.data # <<>>
    /\ hist.rows[1] + 1 > Len(hist.data)

\* C16: a call of update_styles (with no tapped node) or of
\* update_edge_direction_and_highlight whose selected row index is outside
\* the table data does not fail; update_styles then selects none and shows
\* the base stylesheet.
C16_RowIndexOutOfBoundsDegrades ==
    /\ (hist.op \in {"update_styles", "dash_graphml_csv.update_styles"}
          /\ tapNodeData = <<>> /\ RowIndexOutOfBounds) =>
          /\ ~hist.raised
          /\ last_selected = NoSelection
          /\ stylesheet = get_base_stylesheet
    /\ (hist.op = "update_edge_direction_and_highlight" /\ RowIndexOutOfBounds) =>
          ~hist.raised

\* C17: update_styles called with a tapped node id that is not a node of the
\* graph selects none and returns a stylesheet with no rule for that id.
C17_AbsentNodeNotHighlighted ==
    (hist.op = "update_styles" /\ tapNodeData # <<>>
       /\ tapNodeData.id \notin Range(graph.nodes)) =>
        /\ ~hist.raised
        /\ last_selected = NoSelection
        /\ NodeIdSelector(tapNodeData.id) \notin Selectors(stylesheet)

\* C18: a call of update_styles for a selected row of the table (no tapped
\* node, the index within the table) never raises, whatever columns the row
\* has and whatever filter columns are configured: it ends with selection
\* none and the base stylesheet, or with the row selected and the stylesheet
\* carrying highlight rules after the base.
C18_RowSelectionNeverRaises ==
    (hist.op \in {"update_styles", "dash_refactored.update_styles"}
       /\ tapNodeData = <<>>
       /\ hist.rows # <<>> /\ hist.data # <<>> /\ ~RowIndexOutOfBounds) =>
        /\ ~hist.raised
        /\ \/ last_selected = NoSelection /\ stylesheet = get_base_stylesheet
           \/ /\ last_selected = TableRow(hist.rows[1])
              /\ Len(stylesheet) > Len(get_base_stylesheet)
              /\ SubSeq(stylesheet, 1, Len(get_base_stylesheet)) = get_base_stylesheet

\* the selection is one whole value: none, a node of the graph, or a row of
\* the original table
WellFormedSelection(s) ==
    /\ DOMAIN s = {"type", "value"}
    /\ \/ s = NoSelection
       \/ s.type = "node" /\ s.value \in NodeIds
       \/ s.type = "table" /\ s.value \in 0..(Len(original_table_data) - 1)

\* C19: the selection is none when the session starts; in every state of a
\* session it is none, node(id) or tableRow(index), never a type without a
\* value or a value without a type; a callback that raises leaves it as it
\* was, and a reset or clear that was pressed leaves it none.
C19_SelectionWholeValue ==
    /\ hist.op = "layout" => last_selected = NoSelection
    /\ WellFormedSelection(last_selected)
    /\ (hist.op # "layout" /\ hist.op # "event" /\ hist.raised) =>
          last_selected = hist.pre
    /\ (hist.op \in {"handle_selection_clear", "handle_style_reset", "handle_full_reset"}
          /\ hist.clicks >= 1) => last_selected = NoSelection

\* a row selection replaced by a node selection in one step
C19_Witness ==
    /\ hist.op = "update_styles"
    /\ hist.pre = TableRow(1)
    /\ last_selected = Node("A")

TypeSelector(t) == "node[Type = \"" \o t \o "\"]"

TypeSelectors == {TypeSelector(t) : t \in Range(TypeOrder)}

\* the layer a rule belongs to, by its selector
Layer(selector) ==
    CASE selector = "node" -> 1
      [] selector \in TypeSelectors -> 2
      [] selector = "edge" -> 3
      [] selector \in {"edge.undirected", "edge.directed"} -> 4
      [] OTHER -> 5

PresentTypes == {_get_node_type(graph.ndata[n]) : n \in Range(graph.nodes)}

ConfiguredTypes == DOMAIN Get(config, "node_type_styles", <<>>)

HighlightSelectors ==
    {NodeIdSelector(v) : v \in NodeIds}
    \cup {EdgeSelector(u, v) : u \in NodeIds, v \in NodeIds}

InLayerOrder(sheet) ==
    LET L(i) == Layer(sheet[i].selector)
        At(l) == {i \in 1..Len(sheet) : L(i) = l}
    IN /\ \A i \in 1..(Len(sheet) - 1) : L(i) <= L(i + 1)
       /\ At(1) = {1}
       /\ {sheet[i].selector : i \in At(2)}
             = {TypeSelector(t) : t \in PresentTypes \cap ConfiguredTypes}
       /\ Cardinality(At(2)) = Cardinality(PresentTypes \cap ConfiguredTypes)
       /\ Cardinality(At(3)) = 1
       /\ \/ At(4) = {}
          \/ \E i \in 1..(Len(sheet) - 1) :
                /\ At(4) = {i, i + 1}
                /\ sheet[i].selector = "edge.undirected"
                /\ sheet[i + 1].selector = "edge.directed"
       /\ \A i \in At(5) : sheet[i].selector \in HighlightSelectors

\* C20: the stylesheet the session displays, the base stylesheet and the
\* directed stylesheet have their rules in layer order: the default node
\* rule, one rule per node type present in the graph and configured, the
\* default edge rule, the edge.undirected / edge.directed overlay if any, and
\* the highlight rules last.
C20_LayerOrder ==
    /\ InLayerOrder(stylesheet)
    /\ InLayerOrder(get_base_stylesheet)
    /\ InLayerOrder(get_directed_stylesheet)

\* all five layers: the overlay and the highlight of the row (A, B)
C20_Witness ==
    /\ hist.op = "update_edge_direction_and_highlight"
    /\ Len(stylesheet) = Len(get_base_stylesheet) + 5
    /\ stylesheet[Len(stylesheet) - 3].selector = "edge.directed"
    /\ stylesheet[Len(stylesheet)].selector = EdgeSelector("A", "B")
    /\ PresentTypes \ ConfiguredTypes # {}
    /\ ConfiguredTypes \ PresentTypes # {}

\* the bucket named by the Type the element projector reports for node k
ProjectedBucket(k) ==
    LET category == Lower(elements[k].data["Type"])
    IN IF category \in {"interface", "processer", "storage"} THEN category ELSE "other"

\* C21: the grouped layout puts every node in exactly one bucket, the one
\* named (case-insensitively) by the Type the element projector reports for
\* the node: a node of an interface / processer / storage Type is placed in
\* that bucket's column, any other node in the row of the other bucket.
C21_BucketByProjectedCategory ==
    (hist.op = "handle_layout_change" /\ hist.clicks >= 1) =>
        \A k \in 1..Len(graph.nodes) :
            LET n == graph.nodes[k]
                at == hist.layout.positions[n]
            IN /\ elements[k].data["id"] = n
               /\ Cardinality({b \in {"interface", "processer", "storage", "other"} :
                                  n \in Range(BucketNodes(b))}) = 1
               /\ n \in Range(BucketNodes(ProjectedBucket(k)))
               /\ IF ProjectedBucket(k) = "other"
                  THEN at.y = FracOf(-200)
                  ELSE at.x = FracOf(BucketX(ProjectedBucket(k)))

\* the join-key columns of a row: the configured ones, else the first of the
\* pairs (source, target), (from, to), (sender, receiver) the row has both
\* columns of; <<>> when there is none
JoinKeyPair(row) ==
    LET configured == Get(Get(config, "table", <<>>), "filter_columns", <<>>)
        pairs == <<<<"source", "target">>, <<"from", "to">>, <<"sender", "receiver">>>>
        present == {k \in 1..Len(pairs) : Range(pairs[k]) \subseteq DOMAIN row}
    IN IF configured # <<>> THEN configured
       ELSE IF present = {} THEN <<>>
       ELSE pairs[CHOOSE k \in present : \A j \in present : k <= j]

\* C22: when update_styles selects a table row, the stylesheet it returns
\* highlights the source and target read from the row's join-key pair: the
\* configured filter columns, else the first pair among (source, target),
\* (from, to), (sender, receiver) of which the row has both columns.
C22_HighlightFromOnePair ==
    (hist.op \in {"update_styles", "dash_graphml_csv.update_styles"}
       /\ ~hist.raised /\ tapNodeData = <<>> /\ last_selected.type = "table") =>
        LET row == hist.data[last_selected.value + 1]
            columns == JoinKeyPair(row)
        IN /\ columns # <<>>
           /\ Range(columns) \subseteq DOMAIN row
           /\ stylesheet = add_edge_highlight(Str(row[columns[1]]), Str(row[columns[2]]))

\* the edges of the graph that a rule of the stylesheet highlights
HighlightedEdges ==
    {e \in Range(graph.edges) : EdgeSelector(e[1], e[2]) \in Selectors(stylesheet)}

\* the edges the elements mark directed
DirectedEdges ==
    {<<elements[k].data["source"], elements[k].data["target"]>> :
        k \in {j \in 1..Len(elements) :
                  "source" \in DOMAIN elements[j].data /\ elements[j].data["directed"]}}

\* C23: once the callbacks of a row selection have run and a row is selected,
\* the edges marked directed are the edges of the graph the highlight rules
\* target, whatever the join-key columns of the table.
C23_DirectedPairIsHighlightedPair ==
    (pending = {} /\ hist.ev.ev = "row" /\ last_selected.type = "table") =>
        DirectedEdges = HighlightedEdges

\* the last user event was a press of the full reset button and every
\* callback it set off has run
FullResetSettled ==
    /\ pending = {}
    /\ hist.ev.ev = "press"
    /\ hist.ev.button = "handle_full_reset"

\* C24: once a full reset and the callbacks it sets off have run, the
\* dashboard is in its initial state: selection none, no edge directed, the
\* table showing the original data, no row selected, and the stylesheet the
\* base plus the overlay rules, without a highlight rule.
C24_FullResetRestoresInitialState ==
    FullResetSettled =>
        /\ last_selected = NoSelection
        /\ DirectedEdges = {}
        /\ elements = get_cytoscape_elements
        /\ table_data = original_table_data
        /\ selected_rows = <<>>
        /\ stylesheet = get_directed_stylesheet

\* the threads inside the loop of start_random_messages
RunningLoops == {t \in Threads : task_thread[t] \in {"while", "sleep"}}

\* C25: whatever the interleaving of connections, thread starts and stops, at
\* most one thread is inside the loop of start_random_messages.
C25_AtMostOneLoop == Cardinality(RunningLoops) <= 1

\* C26: the grouped layout gives no two nodes of a graph the same position.
C26_NoTwoNodesAtOnePosition ==
    (hist.op = "handle_layout_change" /\ hist.clicks >= 1) =>
        \A a \in Range(graph.nodes) : \A b \in Range(graph.nodes) :
            a # b => hist.layout.positions[a] # hist.layout.positions[b]

\* the row the session has selected, once its callbacks have run
SettledRow == table_data[last_selected.value + 1]

\* C27: once update_styles and update_edge_direction_and_highlight have both
\* run for a selected row with a source and a target, the stylesheet is the
\* base, the edge.undirected / edge.directed overlay and the three highlight
\* rules of the row, in whichever order the two callbacks completed.
C27_RowSelectionOrderFree ==
    (/\ pending = {}
     /\ hist.ev.ev = "row"
     /\ last_selected.type = "table"
     /\ Truthy(Get(SettledRow, "source", ""))
     /\ Truthy(Get(SettledRow, "target", ""))) =>
        /\ {"edge.undirected", "edge.directed"} \subseteq Selectors(stylesheet)
        /\ stylesheet = _merge_stylesheets(get_directed_stylesheet,
                                           add_edge_highlight(SettledRow["source"],
                                                              SettledRow["target"]))

\* the (source, target) of the selected row, read from its join-key columns
SelectedPair ==
    IF last_selected.type # "table" \/ last_selected.value + 1 > Len(table_data)
    THEN <<>>
    ELSE LET columns == JoinKeyPair(SettledRow)
         IN IF columns = <<>> \/ ~(Range(columns) \subseteq DOMAIN SettledRow) THEN <<>>
            ELSE <<Str(SettledRow[columns[1]]), Str(SettledRow[columns[2]])>>

\* C28: in every state of a session in which no callback is pending, an edge
\* is marked directed only if the selection is a table row and the edge's
\* (source, target) is the join-key pair of that row; with the selection none
\* or a node, no edge is directed.
C28_DirectedOnlyForSelectedRow ==
    pending = {} => DirectedEdges \subseteq {SelectedPair}

\* C29: when update_styles runs for a row selection made after a node tap
\* (tapNodeData still holds the tapped node), it selects the row and returns
\* the edge highlight of the row's source and target.
C29_RowSelectionAfterTapSelectsRow ==
    (/\ hist.op = "update_styles"
     /\ hist.ev.ev = "row"
     /\ tapNodeData # <<>>
     /\ CalledRow # <<>>
     /\ JoinKeyPair(CalledRow) # <<>>
     /\ Range(JoinKeyPair(CalledRow)) \subseteq DOMAIN CalledRow) =>
        /\ ~hist.raised
        /\ last_selected = TableRow(hist.ev.index)
        /\ stylesheet = add_edge_highlight(Str(CalledRow[JoinKeyPair(CalledRow)[1]]),
                                           Str(CalledRow[JoinKeyPair(CalledRow)[2]]))

\* C30: after filter_table has run for a tapped node, the table shows the
\* rows of the original table that reference the node (all original rows
\* when none does), whatever was tapped before.
C30_TapFiltersOriginalTable ==
    (hist.op = "filter_table" /\ tapNodeData # <<>>) =>
        table_data = filter_table_by_node(tapNodeData.id, original_table_data)

====
